---- MODULE Spec2Model ----
(***************************************************************************)
(* SecretManager (src/secret_manager.py): a key/value store kept in one    *)
(* YAML file, guarded by a check that the file is git-ignored before any   *)
(* write.  The ignore manager, the YAML library and the logger are         *)
(* collaborators; they are modelled by their interface.                    *)
(***************************************************************************)
EXTENDS Integers, Sequences, FiniteSets, TLC

VARIABLES
  cwd,          \* the process's current working directory (Path.cwd())
  zone,         \* entries of the ignore file's managed zone
  glob,         \* paths the ignore rules outside the managed zone match
  file,         \* content of the file at secrets_path
  secrets_path, \* self.secrets_path of the store instances of this run
  last,         \* the most recent call: arguments, result, exception, log
  pc,           \* per process: where its set or delete call stands
  loc,          \* per process: the call's arguments and local variables
  phase,        \* where the refuse-repair-retry caller stands
  refusals,     \* how many of its calls were refused so far
  goal          \* the key and value it is trying to store

vars == <<cwd, zone, glob, file, secrets_path, last, pc, loc, phase, refusals, goal>>
\* State of the step-by-step processes, untouched by whole calls.
conc == <<pc, loc>>
\* State of the refuse-repair-retry caller.
scen == <<phase, refusals, goal>>

\* ------------------------------------------------------------ input sets
Keys == {"A", "B"}
Vals == {"x", "y"}
None == "None"
Defaults == {None, "dflt"}
\* Longest key sequence passed to get_multiple.
MaxRequested == 2

\* ------------------------------------------------------ class constants
DEFAULT_SECRETS_PATH == "project/data/secrets.yaml"
SECRETS_PATTERNS == <<"project/data/secrets.yaml", "project/data/secrets.*.yaml">>

\* ------------------------------------------------------------ directories
\* "/w" holds a project marker (init.yaml or .git); "/w/app" lies below it;
\* "/x" has no marker in any ancestor.
Cwds == {"/w/app", "/x"}
Marked == {"/w"}
Parents(d) == IF d = "/w/app" THEN <<"/w/app", "/w", "/">>
              ELSE IF d = "/w" THEN <<"/w", "/">>
              ELSE <<d, "/">>

\* _find_project_root: the first of cwd and its parents that holds a marker,
\* cwd itself when none does.
RECURSIVE FirstMarked(_, _)
FirstMarked(ps, fallback) ==
  IF ps = <<>> THEN fallback
  ELSE IF Head(ps) \in Marked THEN Head(ps)
  ELSE FirstMarked(Tail(ps), fallback)

find_project_root == FirstMarked(Parents(cwd), cwd)

\* ------------------------------------------------------------------ paths
\* A path is its anchor directory, its path below the anchor and its final
\* component.  Path.relative_to(root) succeeds only for the anchor.
ValueError == "ValueError"
DefaultPath(root) ==
  [base |-> root, rel |-> DEFAULT_SECRETS_PATH, name |-> "secrets.yaml"]
InsidePath == [base |-> "/w", rel |-> "conf/keys.yaml", name |-> "keys.yaml"]
OutsidePath == [base |-> "/tmp/s", rel |-> "keys.yaml", name |-> "keys.yaml"]
\* A relative path is kept as given (Path(secrets_path), never resolved): it
\* has no anchor, and the file it names is looked up from cwd.
RelativePath == [base |-> ".", rel |-> "conf/keys.yaml", name |-> "keys.yaml"]
Args == {None, "inside", "outside"}
ArgPath(a) ==
  IF a = "inside" THEN InsidePath
  ELSE IF a = "relative" THEN RelativePath
  ELSE OutsidePath

relative_to(p, root) == IF p.base = root THEN p.rel ELSE ValueError

\* --------------------------------------------------------- ignore manager
is_ignored(p) == p \in zone
is_globally_ignored(p) == p \in glob
ensure_ignored(z, p) == z \cup {p}

ZoneUniverse(p) == {SECRETS_PATTERNS[1], SECRETS_PATTERNS[2], p.name, p.rel}
GlobUniverse(p) == {p.name, p.rel}

\* ------------------------------------------------------- file and mapping
\* A mapping is a function from a set of keys to values.
Mappings == UNION {[D -> Vals] : D \in SUBSET Keys}
EmptyMap == <<>>
Has(m, k) == k \in DOMAIN m
\* Assignment that keeps the value of a key already present.
PutIfAbsent(m, k, v) ==
  [x \in (DOMAIN m) \cup {k} |-> IF x \in DOMAIN m THEN m[x] ELSE v]
Put(m, k, v) == [x \in (DOMAIN m) \cup {k} |-> IF x = k THEN v ELSE m[x]]
\* Removal that removes nothing.
DelNothing(m, k) == m
Del(m, k) == [x \in (DOMAIN m) \ {k} |-> m[x]]
DictGet(m, k, d) == IF Has(m, k) THEN m[k] ELSE d

\* NoParent: neither the file nor its parent directory exists.
NoParent == [kind |-> "noparent", data |-> EmptyMap]
Absent == [kind |-> "absent", data |-> EmptyMap]
NonMap == [kind |-> "nonmap", data |-> EmptyMap]
Malformed == [kind |-> "malformed", data |-> EmptyMap]
\* A file that does not parse at a line that holds a stored value, as an
\* unterminated quote leaves it: data is what that line holds.
MalformedSecret == [kind |-> "malformed", data |-> [k \in {"A"} |-> "x"]]
Undecodable == [kind |-> "undecodable", data |-> EmptyMap]

\* ------------------------------------------------------------------- YAML
\* Python values: a str is the string itself; None and the values of other
\* types are named by reserved strings.
PyInt == "int(123)"
PyFloat == "float(1.5)"
PyTrue == "bool(True)"
PyTuple == "tuple()"
TagOf(v) ==
  CASE v = None -> "null"
    [] v = PyInt -> "int"
    [] v = PyFloat -> "float"
    [] v = PyTrue -> "bool"
    [] v = PyTuple -> "python/tuple"
    [] OTHER -> "str"

\* The YAML 1.1 implicit resolver, on the scalar texts of this model.
resolve(text) ==
  CASE text \in {"null", "~", ""} -> "null"
    [] text \in {"true", "yes", "on"} -> "bool"
    [] text = "123" -> "int"
    [] text = "1.5" -> "float"
    [] OTHER -> "str"

\* The representer: a value's tag and scalar text.
represent(v) ==
  [tag |-> TagOf(v),
   text |-> CASE v = None -> "null"
              [] v = PyInt -> "123"
              [] v = PyFloat -> "1.5"
              [] v = PyTrue -> "true"
              [] v = PyTuple -> "[]"
              [] OTHER -> v]

\* The emitter writing every scalar plain, whatever it would resolve to.
emit_scalar_plain(v) ==
  LET n == represent(v) IN
  IF n.tag = "python/tuple" THEN [style |-> "tagged", text |-> n.text]
  ELSE [style |-> "plain", text |-> n.text]

\* The emitter: a scalar is written plain only if it is not empty and the
\* implicit resolver gives its text the value's own tag; otherwise quoted.
\* A tuple is written with the tag python/tuple.
emit_scalar(v) ==
  LET n == represent(v) IN
  IF n.tag = "python/tuple" THEN [style |-> "tagged", text |-> n.text]
  ELSE IF n.text # "" /\ resolve(n.text) = n.tag THEN [style |-> "plain", text |-> n.text]
  ELSE [style |-> "quoted", text |-> n.text]

\* The safe constructor: a quoted scalar is a str, a plain one what the
\* implicit resolver makes of it.
construct_scalar(tok) ==
  IF tok.style = "quoted" THEN tok.text
  ELSE CASE resolve(tok.text) = "null" -> None
         [] resolve(tok.text) = "bool" -> PyTrue
         [] resolve(tok.text) = "int" -> PyInt
         [] resolve(tok.text) = "float" -> PyFloat
         [] OTHER -> tok.text

\* yaml.dump of a mapping, block style: one "key: value" line for each key
\* (their order, sorted by key, plays no part in what is loaded); "{}" for
\* the empty mapping.
emit_doc(m) ==
  [flow |-> DOMAIN m = {},
   lines |-> {<<emit_scalar(k), emit_scalar(m[k])>> : k \in DOMAIN m}]

\* yaml.safe_load of such a document: a tag the safe loader has no
\* constructor for raises ConstructorError, a YAMLError.
parse_doc(d) ==
  IF \E l \in d.lines : l[1].style = "tagged" \/ l[2].style = "tagged"
    THEN [raised |-> "YAMLError", value |-> EmptyMap]
    ELSE [raised |-> None,
          value |-> [k \in {construct_scalar(l[1]) : l \in d.lines} |->
                      construct_scalar((CHOOSE l \in d.lines : construct_scalar(l[1]) = k)[2])]]

\* The content of the file after yaml.dump and write_text. A file content
\* is named by what yaml.safe_load makes of it: the mapping it parses to, or
\* Malformed when it does not parse.
yaml_dump(m) ==
  LET r == parse_doc(emit_doc(m)) IN
  IF r.raised # None THEN Malformed ELSE [kind |-> "map", data |-> r.value]
Contents == {yaml_dump(m) : m \in Mappings} \cup {NonMap, Malformed, Undecodable}
FileStates == Contents \cup {Absent, NoParent}
exists(f) == f.kind \notin {"absent", "noparent"}

\* read_text(encoding="utf-8"): bytes that are not UTF-8 raise.
read_text(f) ==
  IF f.kind = "undecodable" THEN [raised |-> "UnicodeDecodeError", text |-> f]
  ELSE [raised |-> None, text |-> f]

\* yaml.safe_load: a YAMLError on malformed text, else the document's value.
yaml_safe_load(c) ==
  IF c.kind = "malformed" THEN [raised |-> "YAMLError", isdict |-> FALSE, value |-> EmptyMap]
  ELSE [raised |-> None, isdict |-> c.kind = "map", value |-> c.data]

\* ------------------------------------------------------------------- log
\* A log entry: its level, its fixed text, the key its message names and the
\* values of the secrets file its message quotes.
Entry(level, event, key) ==
  [level |-> level, event |-> event, key |-> key, quoted |-> {}]
\* logger.error(f"Failed to parse secrets file: {e}"): the text of a
\* YAMLError raised on a str quotes the line of the error.
ParseError ==
  [Entry("error", "Failed to parse secrets file", None) EXCEPT
     !.quoted = IF file.kind = "malformed"
                  THEN {file.data[k] : k \in DOMAIN file.data} ELSE {}]

\* ------------------------------------------------------ internal helpers
SecretNotIgnoredError == "SecretNotIgnoredError"

\* The validation with its final raise missing.
validate_never_raises == [raised |-> None, by |-> "none"]

\* _validate_ignored_before_write: the checks in the order the code makes
\* them; `by` names the check that returned.
validate_ignored_before_write ==
  IF \E i \in 1..Len(SECRETS_PATTERNS) : is_ignored(SECRETS_PATTERNS[i])
    THEN [raised |-> None, by |-> "pattern"]
  ELSE IF is_ignored(secrets_path.name)
    THEN [raised |-> None, by |-> "name"]
  ELSE LET rel == relative_to(secrets_path, find_project_root) IN
    IF rel # ValueError
      THEN IF is_globally_ignored(rel)
             THEN [raised |-> None, by |-> "global_rel"]
             ELSE [raised |-> SecretNotIgnoredError, by |-> "none"]
      ELSE IF is_globally_ignored(secrets_path.name)
             THEN [raised |-> None, by |-> "global_name"]
             ELSE [raised |-> SecretNotIgnoredError, by |-> "none"]

\* _load_secrets, the try block with its except clause dropped: a YAMLError
\* reaches the caller.
load_existing_uncaught ==
  LET rd == read_text(file) IN
  IF rd.raised # None THEN [data |-> EmptyMap, log |-> <<>>, raised |-> rd.raised]
  ELSE LET y == yaml_safe_load(rd.text) IN
    [data |-> IF y.isdict THEN y.value ELSE EmptyMap, log |-> <<>>, raised |-> y.raised]

\* _load_secrets, the try block: read, parse, keep a mapping; a YAMLError is
\* logged and gives the empty mapping.
load_existing ==
  LET rd == read_text(file) IN
  IF rd.raised # None THEN [data |-> EmptyMap, log |-> <<>>, raised |-> rd.raised]
  ELSE LET y == yaml_safe_load(rd.text) IN
    IF y.raised # None
      THEN [data |-> EmptyMap, log |-> <<ParseError>>, raised |-> None]
      ELSE [data |-> IF y.isdict THEN y.value ELSE EmptyMap,
            log |-> <<>>, raised |-> None]

\* _load_secrets without its exists() test: a missing file raises.
load_secrets_no_exists_check ==
  IF ~exists(file) THEN [data |-> EmptyMap, log |-> <<>>, raised |-> "FileNotFoundError"]
  ELSE load_existing

\* _load_secrets answering from the mapping the previous call held.
load_secrets_cached ==
  IF last.op = "external" /\ last.loaded
    THEN [data |-> last.secrets, log |-> <<>>, raised |-> None]
  ELSE IF ~exists(file) THEN [data |-> EmptyMap, log |-> <<>>, raised |-> None]
  ELSE load_existing

\* _load_secrets: the mapping, the log entries emitted, the exception.
load_secrets ==
  IF ~exists(file) THEN [data |-> EmptyMap, log |-> <<>>, raised |-> None]
  ELSE load_existing

\* _save_secrets: parent directory made, the whole mapping written.
save_secrets(secrets) == yaml_dump(secrets)

\* ---------------------------------------------------------- call records
ReadOps == {"get", "has", "list", "get_multiple"}
LoadingOps == ReadOps \cup {"set", "delete"}
Call(op, key, val, result, raised, log, secrets) ==
  [op |-> op, key |-> key, val |-> val, result |-> result, listed |-> {},
   multi |-> <<>>, raised |-> raised, log |-> log, secrets |-> secrets,
   loaded |-> op \in LoadingOps /\ raised \notin {SecretNotIgnoredError, "UnicodeDecodeError"},
   stale |-> FALSE]
EnvCall == Call("env", None, None, None, None, <<>>, EmptyMap)
\* Whether the mapping this call loads differs from the one the previous
\* call held, the file having been written from outside in between.
Stale(data) == last.op = "external" /\ last.loaded /\ last.secrets # data

\* ------------------------------------------------------------ public API
\* __init__ whose registration stops after the first pattern.
init_first_pattern_only(arg, auto, z) ==
  [secrets_path |-> IF arg # None THEN ArgPath(arg) ELSE DefaultPath(find_project_root),
   zone |-> IF auto THEN ensure_ignored(z, SECRETS_PATTERNS[1]) ELSE z]

\* __init__(secrets_path, auto_ensure_ignored): the resolved path and the
\* managed zone after construction.
init(arg, auto, z) ==
  [secrets_path |-> IF arg # None THEN ArgPath(arg) ELSE DefaultPath(find_project_root),
   zone |-> IF auto
              THEN ensure_ignored(ensure_ignored(z, SECRETS_PATTERNS[1]), SECRETS_PATTERNS[2])
              ELSE z]

get_secret(key, default) ==
  LET ld == load_secrets IN
  /\ last' = IF ld.raised # None
               THEN Call("get", key, default, None, ld.raised, ld.log, EmptyMap)
               ELSE [Call("get", key, default, DictGet(ld.data, key, default), None,
                          ld.log, ld.data) EXCEPT !.stale = Stale(ld.data)]
  /\ UNCHANGED <<cwd, zone, glob, file, secrets_path>>

\* set_secret declining to overwrite a file it could not read as a mapping.
set_after_validation_keeping(key, value) ==
  LET ld == load_secrets IN
  IF ld.raised # None \/ file.kind \in {"malformed", "nonmap"}
    THEN /\ last' = Call("set", key, value, None,
                         IF ld.raised # None THEN ld.raised ELSE "ValueError", ld.log, EmptyMap)
         /\ UNCHANGED <<cwd, zone, glob, file, secrets_path>>
    ELSE LET secrets == Put(ld.data, key, value) IN
         /\ file' = save_secrets(secrets)
         /\ last' = Call("set", key, value, None, None,
                         ld.log \o <<Entry("info", "saved", key)>>, secrets)
         /\ UNCHANGED <<cwd, zone, glob, secrets_path>>

\* set_secret after its validation: load, assign, save, log.
set_after_validation(key, value) ==
  LET ld == load_secrets IN
  IF ld.raised # None
    THEN /\ last' = Call("set", key, value, None, ld.raised, ld.log, EmptyMap)
         /\ UNCHANGED <<cwd, zone, glob, file, secrets_path>>
    ELSE LET secrets == Put(ld.data, key, value) IN
         /\ file' = save_secrets(secrets)
         /\ last' = Call("set", key, value, None, None,
                         ld.log \o <<Entry("info", "saved", key)>>, secrets)
         /\ UNCHANGED <<cwd, zone, glob, secrets_path>>

\* set_secret refusing for good once a call of the caller was refused.
set_secret_latched(key, value) ==
  LET v == validate_ignored_before_write IN
  IF v.raised # None \/ refusals > 0
    THEN /\ last' = Call("set", key, value, None, SecretNotIgnoredError, <<>>, EmptyMap)
         /\ UNCHANGED <<cwd, zone, glob, file, secrets_path>>
    ELSE set_after_validation(key, value)

set_secret(key, value) ==
  LET v == validate_ignored_before_write IN
  IF v.raised # None
    THEN /\ last' = Call("set", key, value, None, v.raised, <<>>, EmptyMap)
         /\ UNCHANGED <<cwd, zone, glob, file, secrets_path>>
    ELSE set_after_validation(key, value)

\* delete_secret after its validation: load, look up, remove, save, log.
delete_after_validation(key) ==
  LET ld == load_secrets IN
  IF ld.raised # None
    THEN /\ last' = Call("delete", key, None, None, ld.raised, ld.log, EmptyMap)
         /\ UNCHANGED <<cwd, zone, glob, file, secrets_path>>
  ELSE IF ~Has(ld.data, key)
    THEN /\ last' = Call("delete", key, None, "False", None,
                         ld.log \o <<Entry("debug", "not found", key)>>, ld.data)
         /\ UNCHANGED <<cwd, zone, glob, file, secrets_path>>
    ELSE LET secrets == Del(ld.data, key) IN
         /\ file' = save_secrets(secrets)
         /\ last' = Call("delete", key, None, "True", None,
                         ld.log \o <<Entry("info", "deleted", key)>>, secrets)
         /\ UNCHANGED <<cwd, zone, glob, secrets_path>>

\* delete_secret with the validation call left out.
delete_secret_unvalidated(key) == delete_after_validation(key)

delete_secret(key) ==
  LET v == validate_ignored_before_write IN
  IF v.raised # None
    THEN /\ last' = Call("delete", key, None, None, v.raised, <<>>, EmptyMap)
         /\ UNCHANGED <<cwd, zone, glob, file, secrets_path>>
    ELSE delete_after_validation(key)

\* list_secrets creating an empty secrets file when there is none.
list_secrets_touching ==
  LET ld == load_secrets IN
  /\ last' = IF ld.raised # None
               THEN Call("list", None, None, None, ld.raised, ld.log, EmptyMap)
               ELSE [Call("list", None, None, None, None, ld.log, ld.data)
                       EXCEPT !.listed = DOMAIN ld.data, !.stale = Stale(ld.data)]
  /\ file' = IF exists(file) THEN file ELSE save_secrets(EmptyMap)
  /\ UNCHANGED <<cwd, zone, glob, secrets_path>>

list_secrets ==
  LET ld == load_secrets IN
  /\ last' = IF ld.raised # None
               THEN Call("list", None, None, None, ld.raised, ld.log, EmptyMap)
               ELSE [Call("list", None, None, None, None, ld.log, ld.data)
                       EXCEPT !.listed = DOMAIN ld.data, !.stale = Stale(ld.data)]
  /\ UNCHANGED <<cwd, zone, glob, file, secrets_path>>

has_secret(key) ==
  LET ld == load_secrets IN
  /\ last' = IF ld.raised # None
               THEN Call("has", key, None, None, ld.raised, ld.log, EmptyMap)
               ELSE [Call("has", key, None, IF Has(ld.data, key) THEN "True" ELSE "False",
                          None, ld.log, ld.data) EXCEPT !.stale = Stale(ld.data)]
  /\ UNCHANGED <<cwd, zone, glob, file, secrets_path>>

\* get_multiple(keys): keys is a sequence; the result has one entry per
\* distinct requested key.
Range(q) == {q[i] : i \in 1..Len(q)}
\* get_multiple leaving out the keys that are not stored.
get_multiple_omitting(keys) ==
  LET ld == load_secrets IN
  /\ last' = IF ld.raised # None
               THEN Call("get_multiple", None, keys, None, ld.raised, ld.log, EmptyMap)
               ELSE [Call("get_multiple", None, keys, None, None, ld.log, ld.data)
                       EXCEPT !.multi = [k \in Range(keys) \cap DOMAIN ld.data |-> ld.data[k]],
                              !.stale = Stale(ld.data)]
  /\ UNCHANGED <<cwd, zone, glob, file, secrets_path>>

get_multiple(keys) ==
  LET ld == load_secrets IN
  /\ last' = IF ld.raised # None
               THEN Call("get_multiple", None, keys, None, ld.raised, ld.log, EmptyMap)
               ELSE [Call("get_multiple", None, keys, None, None, ld.log, ld.data)
                       EXCEPT !.multi = [k \in Range(keys) |-> DictGet(ld.data, k, None)],
                              !.stale = Stale(ld.data)]
  /\ UNCHANGED <<cwd, zone, glob, file, secrets_path>>

is_protected ==
  LET rel == relative_to(secrets_path, find_project_root) IN
  /\ last' = IF rel = ValueError
               THEN Call("is_protected", None, None, None, ValueError, <<>>, EmptyMap)
               ELSE Call("is_protected", None, None,
                         IF is_ignored(rel) THEN "True" ELSE "False", None, <<>>, EmptyMap)
  /\ UNCHANGED <<cwd, zone, glob, file, secrets_path>>

\* ------------------------------------------------------------ environment
\* The user or another tool edits the ignore file.
ignore_edit ==
  /\ \E p \in ZoneUniverse(secrets_path) :
       zone' = IF p \in zone THEN zone \ {p} ELSE zone \cup {p}
  /\ UNCHANGED <<cwd, glob, file, secrets_path>>
ExternalIgnoreEdit == ignore_edit /\ last' = EnvCall /\ UNCHANGED <<conc, scen>>

\* Ignore rules outside the managed zone change.
global_edit ==
  /\ \E p \in GlobUniverse(secrets_path) :
       glob' = IF p \in glob THEN glob \ {p} ELSE glob \cup {p}
  /\ UNCHANGED <<cwd, zone, file, secrets_path>>
ExternalGlobalEdit == global_edit /\ last' = EnvCall /\ UNCHANGED <<conc, scen>>

\* The process changes its working directory.
Chdir ==
  /\ \E d \in Cwds \ {cwd} : cwd' = d
  /\ last' = EnvCall
  /\ UNCHANGED <<zone, glob, file, secrets_path, conc, scen>>

\* Another process, or the user, rewrites or removes the secrets file. The
\* mapping the previous call held stays on record.
ExternalWrite ==
  /\ \E f \in FileStates \ {file} : file' = f
  /\ last' = [EnvCall EXCEPT !.op = "external", !.secrets = last.secrets,
                              !.loaded = last.loaded]
  /\ UNCHANGED <<cwd, zone, glob, secrets_path, conc, scen>>

\* ------------------------------------------------ calls taken step by step
\* Two processes run set_secret and delete_secret on the same secrets file,
\* each call split at its reads and writes of shared state: the validation,
\* the load, and the two halves of write_text (open for writing, which
\* truncates; then the write of the whole text).
Procs == {"p1", "p2"}
ProcKey(p) == IF p = "p1" THEN "A" ELSE "B"
ProcVal(p) == IF p = "p1" THEN "x" ELSE "y"
Truncated == [kind |-> "empty", data |-> EmptyMap]

Loc(op, key, val, secrets, checked, ended) ==
  [op |-> op, key |-> key, val |-> val, secrets |-> secrets,
   checked |-> checked, ended |-> ended]
IdleLoc == Loc(None, None, None, EmptyMap, "na", None)

\* Whether the secrets file lies under the project root, and its path from
\* there. The file of a relative path is below cwd, and cwd is the project
\* root or below it.
LiesUnderRoot == secrets_path.base = find_project_root \/ secrets_path.base = "."
PathFromRoot ==
  IF secrets_path.base = "." /\ cwd = "/w/app" /\ find_project_root = "/w"
    THEN "app/conf/keys.yaml"
    ELSE secrets_path.rel

\* What the specification's algorithm (steps 1 to 5) accepts, as a
\* predicate on the ignore state at one moment; recorded at the validation.
Accepts ==
  \/ is_ignored(SECRETS_PATTERNS[1])
  \/ is_ignored(SECRETS_PATTERNS[2])
  \/ is_ignored(secrets_path.name)
  \/ /\ LiesUnderRoot
     /\ is_globally_ignored(PathFromRoot)
  \/ /\ ~LiesUnderRoot
     /\ is_globally_ignored(secrets_path.name)

\* set_secret / delete_secret, first statement: the validation.
step_validate(p, op) ==
  /\ pc[p] = "idle"
  /\ LET v == validate_ignored_before_write
         l == Loc(op, ProcKey(p), IF op = "set" THEN ProcVal(p) ELSE None, EmptyMap,
                  IF Accepts THEN "yes" ELSE "no", None) IN
     IF v.raised # None
       THEN /\ loc' = [loc EXCEPT ![p] = [l EXCEPT !.ended = v.raised]]
            /\ UNCHANGED pc
       ELSE /\ loc' = [loc EXCEPT ![p] = l]
            /\ pc' = [pc EXCEPT ![p] = "validated"]
  /\ UNCHANGED <<cwd, zone, glob, file, secrets_path>>

\* The load and the change of the local mapping.
step_load(p) ==
  /\ pc[p] = "validated"
  /\ LET ld == load_secrets
         l == loc[p] IN
     IF ld.raised # None
       THEN /\ loc' = [loc EXCEPT ![p].ended = ld.raised]
            /\ pc' = [pc EXCEPT ![p] = "idle"]
     ELSE IF l.op = "delete" /\ ~Has(ld.data, l.key)
       THEN /\ loc' = [loc EXCEPT ![p].ended = "False"]
            /\ pc' = [pc EXCEPT ![p] = "idle"]
       ELSE /\ loc' = [loc EXCEPT ![p].secrets =
                         IF l.op = "set" THEN Put(ld.data, l.key, l.val)
                         ELSE Del(ld.data, l.key)]
            /\ pc' = [pc EXCEPT ![p] = "loaded"]
  /\ UNCHANGED <<cwd, zone, glob, file, secrets_path>>

\* _save_secrets, first half: mkdir of the parent, open(mode="w").
step_open(p) ==
  /\ pc[p] = "loaded"
  /\ file' = Truncated
  /\ pc' = [pc EXCEPT ![p] = "writing"]
  /\ UNCHANGED <<cwd, zone, glob, secrets_path, loc>>

\* A write that keeps the keys another process's finished call has saved.
step_write_merging(p) ==
  /\ pc[p] = "writing"
  /\ LET others == {q \in Procs \ {p} : loc[q].ended = "ok"}
         kept == UNION {DOMAIN loc[q].secrets : q \in others} \ DOMAIN loc[p].secrets IN
     file' = save_secrets([k \in DOMAIN loc[p].secrets \cup kept |->
                            IF k \in DOMAIN loc[p].secrets THEN loc[p].secrets[k]
                            ELSE loc[CHOOSE q \in others : k \in DOMAIN loc[q].secrets].secrets[k]])
  /\ pc' = [pc EXCEPT ![p] = "idle"]
  /\ loc' = [loc EXCEPT ![p].ended = IF loc[p].op = "set" THEN "ok" ELSE "True"]
  /\ UNCHANGED <<cwd, zone, glob, secrets_path>>

\* _save_secrets, second half: the text is written and the file closed.
step_write(p) ==
  /\ pc[p] = "writing"
  /\ file' = save_secrets(loc[p].secrets)
  /\ pc' = [pc EXCEPT ![p] = "idle"]
  /\ loc' = [loc EXCEPT ![p].ended = IF loc[p].op = "set" THEN "ok" ELSE "True"]
  /\ UNCHANGED <<cwd, zone, glob, secrets_path>>

\* ------------------------------------------------------------------ Spec
Init ==
  /\ cwd = "/w/app"
  /\ \E a \in Args, auto \in BOOLEAN :
       \E z \in SUBSET ZoneUniverse(init(a, auto, {}).secrets_path) :
         /\ secrets_path = init(a, auto, z).secrets_path
         /\ zone = init(a, auto, z).zone
  /\ glob \in SUBSET GlobUniverse(secrets_path)
  /\ file \in FileStates
  /\ last = Call("init", None, None, None, None, <<>>, EmptyMap)
  /\ pc = [p \in Procs |-> "idle"]
  /\ loc = [p \in Procs |-> IdleLoc]
  /\ phase = "refusing"
  /\ refusals = 0
  /\ goal = [key |-> "A", val |-> "x"]

\* A further store instance is constructed on the same secrets path.
Construct ==
  \E a \in Args, auto \in BOOLEAN :
    /\ init(a, auto, zone).secrets_path = secrets_path
    /\ zone' = init(a, auto, zone).zone
    /\ last' = Call("construct", None, IF auto THEN "True" ELSE "False", None, None,
                    IF auto THEN <<Entry("debug", "patterns added", None)>> ELSE <<>>,
                    EmptyMap)
    /\ UNCHANGED <<cwd, glob, file, secrets_path, conc, scen>>

KeySeqs == UNION {[1..n -> Keys] : n \in 0..MaxRequested}

GetSecret == (\E k \in Keys, d \in Defaults : get_secret(k, d)) /\ UNCHANGED <<conc, scen>>
SetSecret == (\E k \in Keys, v \in Vals : set_secret(k, v)) /\ UNCHANGED <<conc, scen>>
DeleteSecret == (\E k \in Keys : delete_secret(k)) /\ UNCHANGED <<conc, scen>>
ListSecrets == list_secrets /\ UNCHANGED <<conc, scen>>
HasSecret == (\E k \in Keys : has_secret(k)) /\ UNCHANGED <<conc, scen>>
GetMultiple == (\E q \in KeySeqs : get_multiple(q)) /\ UNCHANGED <<conc, scen>>
IsProtected == is_protected /\ UNCHANGED <<conc, scen>>

Next ==
  \/ Construct
  \/ GetSecret
  \/ SetSecret
  \/ DeleteSecret
  \/ ListSecrets
  \/ HasSecret
  \/ GetMultiple
  \/ IsProtected
  \/ ExternalIgnoreEdit
  \/ ExternalGlobalEdit
  \/ Chdir
  \/ ExternalWrite

Spec == Init /\ [][Next]_vars

\* ------------------------------------------------------------- SpecConc
\* The same store, its calls interleaved with each other and with edits of
\* the ignore file.
ConcFiles == {Absent} \cup {yaml_dump(m) : m \in {mm \in Mappings :
                 \A k \in DOMAIN mm : \E p \in Procs : k = ProcKey(p) /\ mm[k] = ProcVal(p)}}
InitConc == Init /\ file \in ConcFiles

StepValidate == (\E p \in Procs, op \in {"set", "delete"} : step_validate(p, op)) /\ UNCHANGED <<last, scen>>
StepLoad == (\E p \in Procs : step_load(p)) /\ UNCHANGED <<last, scen>>
StepOpen == (\E p \in Procs : step_open(p)) /\ UNCHANGED <<last, scen>>
StepWrite == (\E p \in Procs : step_write(p)) /\ UNCHANGED <<last, scen>>
ConcIgnoreEdit == ignore_edit /\ UNCHANGED <<last, conc, scen>>
ConcGlobalEdit == global_edit /\ UNCHANGED <<last, conc, scen>>

NextConc ==
  \/ StepValidate
  \/ StepLoad
  \/ StepOpen
  \/ StepWrite
  \/ ConcIgnoreEdit
  \/ ConcGlobalEdit

SpecConc == InitConc /\ [][NextConc]_vars

\* --------------------------------------------------------- SpecRecovery
\* One caller on one store: calls that the validation refuses, repairs of the
\* ignore state, then set, get, list, delete and get of one key, with nothing
\* else touching the file. The secrets file is absent or readable as text.
MaxRefusals == 2

InitRecovery ==
  /\ Init
  /\ file # Undecodable

\* A set or delete made while the ignore state fails the check.
RefusedCall ==
  /\ phase = "refusing"
  /\ refusals < MaxRefusals
  /\ validate_ignored_before_write.raised # None
  /\ \/ \E k \in Keys, v \in Vals : set_secret(k, v)
     \/ \E k \in Keys : delete_secret(k)
  /\ refusals' = refusals + 1
  /\ UNCHANGED <<phase, goal, conc>>

\* The caller constructs a store with auto_ensure_ignored, which registers
\* the fixed patterns.
RepairByEnsure ==
  /\ phase = "refusing"
  /\ \E a \in Args :
       /\ init(a, TRUE, zone).secrets_path = secrets_path
       /\ zone' = init(a, TRUE, zone).zone
  /\ last' = EnvCall
  /\ UNCHANGED <<cwd, glob, file, secrets_path, scen, conc>>

\* The user edits the managed zone or the other ignore rules.
RepairByEdit ==
  /\ phase = "refusing"
  /\ (ignore_edit \/ global_edit)
  /\ last' = EnvCall
  /\ UNCHANGED <<scen, conc>>

\* The first set once the ignore state passes the check.
RetrySet ==
  /\ phase = "refusing"
  /\ validate_ignored_before_write.raised = None
  /\ \E k \in Keys, v \in Vals :
       /\ set_secret(k, v)
       /\ goal' = [key |-> k, val |-> v]
  /\ phase' = "set"
  /\ UNCHANGED <<refusals, conc>>

ThenGet ==
  /\ phase = "set"
  /\ get_secret(goal.key, None)
  /\ phase' = "got"
  /\ UNCHANGED <<refusals, goal, conc>>

ThenList ==
  /\ phase = "got"
  /\ list_secrets
  /\ phase' = "listed"
  /\ UNCHANGED <<refusals, goal, conc>>

ThenDelete ==
  /\ phase = "listed"
  /\ delete_secret(goal.key)
  /\ phase' = "deleted"
  /\ UNCHANGED <<refusals, goal, conc>>

ThenGetAgain ==
  /\ phase = "deleted"
  /\ get_secret(goal.key, None)
  /\ phase' = "done"
  /\ UNCHANGED <<refusals, goal, conc>>

NextRecovery ==
  \/ RefusedCall
  \/ RepairByEnsure
  \/ RepairByEdit
  \/ RetrySet
  \/ ThenGet
  \/ ThenList
  \/ ThenDelete
  \/ ThenGetAgain

SpecRecovery == InitRecovery /\ [][NextRecovery]_vars

\* ------------------------------------------------- save and load of values
\* One store on the canonical path, its patterns registered; the caller
\* stores mappings whose keys and values are the scalars YAML may read as
\* something else than they were written: goal is the mapping the caller
\* means the file to hold.
RtKeys == {"A", "123"}
RtVals == {"x", "123", "true", "", None, PyInt, PyFloat, PyTrue, PyTuple}
RtMappings == UNION {[d -> RtVals] : d \in SUBSET RtKeys}

InitRoundTrip ==
  /\ cwd = "/w/app"
  /\ secrets_path = init(None, TRUE, {}).secrets_path
  /\ zone = init(None, TRUE, {}).zone
  /\ glob = {}
  /\ file = NoParent
  /\ last = Call("init", None, None, None, None, <<>>, EmptyMap)
  /\ pc = [p \in Procs |-> "idle"]
  /\ loc = [p \in Procs |-> IdleLoc]
  /\ phase = "refusing"
  /\ refusals = 0
  /\ goal = EmptyMap

\* _save_secrets(M)
RtSave ==
  \E m \in RtMappings :
    /\ file' = save_secrets(m)
    /\ goal' = m
    /\ last' = Call("save", None, None, None, None, <<>>, m)
    /\ UNCHANGED <<cwd, zone, glob, secrets_path, conc, phase, refusals>>

\* _load_secrets()
RtLoad ==
  LET ld == load_secrets IN
  /\ last' = Call("load", None, None, None, ld.raised, ld.log, ld.data)
  /\ UNCHANGED <<cwd, zone, glob, file, secrets_path, conc, scen>>

\* set_secret(key, value) on what the file holds.
RtSet ==
  \E k \in RtKeys, v \in RtVals :
    /\ set_secret(k, v)
    /\ goal' = Put(load_secrets.data, k, v)
    /\ UNCHANGED <<conc, phase, refusals>>

\* A fresh instance on the same path.
RtConstruct == Construct

\* get_secret(key)
RtGet ==
  /\ \E k \in RtKeys : get_secret(k, None)
  /\ UNCHANGED <<conc, scen>>

NextRoundTrip ==
  \/ RtSave
  \/ RtLoad
  \/ RtSet
  \/ RtConstruct
  \/ RtGet

SpecRoundTrip == InitRoundTrip /\ [][NextRoundTrip]_vars

\* -------------------------------------------------------------- SpecRace
\* Two processes, each making one set of its own key on the same file, their
\* steps interleaved with each other and with the calls of a reader; the
\* patterns are registered, so every validation passes. goal is the mapping
\* the file held at the start.
InitRace ==
  /\ cwd = "/w/app"
  /\ secrets_path = init(None, TRUE, {}).secrets_path
  /\ zone = init(None, TRUE, {}).zone
  /\ glob = {}
  /\ file \in ConcFiles
  /\ goal = IF file.kind = "map" THEN file.data ELSE EmptyMap
  /\ last = Call("init", None, None, None, None, <<>>, EmptyMap)
  /\ pc = [p \in Procs |-> "idle"]
  /\ loc = [p \in Procs |-> IdleLoc]
  /\ phase = "refusing"
  /\ refusals = 0

RaceValidate ==
  /\ \E p \in Procs : loc[p].op = None /\ step_validate(p, "set")
  /\ UNCHANGED <<last, scen>>

NextRace ==
  \/ RaceValidate
  \/ StepLoad
  \/ StepOpen
  \/ StepWrite
  \/ GetSecret
  \/ HasSecret
  \/ ListSecrets
  \/ GetMultiple

SpecRace == InitRace /\ [][NextRace]_vars

\* --------------------------------------------------------------- SpecLog
\* One store on the canonical path under every state of the managed zone and
\* of the file, a file broken at a line that holds a value included; sets and
\* deletes, with the file and the zone edited from outside in between.
InitLog ==
  /\ cwd = "/w/app"
  /\ secrets_path = init(None, FALSE, {}).secrets_path
  /\ zone \in SUBSET ZoneUniverse(secrets_path)
  /\ glob = {}
  /\ file \in FileStates \cup {MalformedSecret}
  /\ last = Call("init", None, None, None, None, <<>>, EmptyMap)
  /\ pc = [p \in Procs |-> "idle"]
  /\ loc = [p \in Procs |-> IdleLoc]
  /\ phase = "refusing"
  /\ refusals = 0
  /\ goal = [key |-> "A", val |-> "x"]

NextLog ==
  \/ SetSecret
  \/ DeleteSecret
  \/ ExternalWrite
  \/ ExternalIgnoreEdit

SpecLog == InitLog /\ [][NextLog]_vars

\* ------------------------------------------------ the validation on its own
\* Stores on every kind of path, a relative one included, under every
\* ignore state; the validation is run on its own, as the first statement of
\* set_secret and delete_secret runs it.
ValArgs == Args \cup {"relative"}

InitValidate ==
  /\ cwd = "/w/app"
  /\ \E a \in ValArgs, auto \in BOOLEAN :
       \E z \in SUBSET ZoneUniverse(init(a, auto, {}).secrets_path) :
         /\ secrets_path = init(a, auto, z).secrets_path
         /\ zone = init(a, auto, z).zone
  /\ glob \in SUBSET (GlobUniverse(secrets_path) \cup
                        IF secrets_path = RelativePath THEN {"app/conf/keys.yaml"} ELSE {})
  /\ file = NoParent
  /\ last = Call("init", None, None, None, None, <<>>, EmptyMap)
  /\ pc = [p \in Procs |-> "idle"]
  /\ loc = [p \in Procs |-> IdleLoc]
  /\ phase = "refusing"
  /\ refusals = 0
  /\ goal = [key |-> "A", val |-> "x"]

\* _validate_ignored_before_write(): the call record holds the check that
\* returned and the exception.
Validate ==
  LET v == validate_ignored_before_write IN
  /\ last' = Call("validate", None, None, v.by, v.raised, <<>>, EmptyMap)
  /\ UNCHANGED <<cwd, zone, glob, file, secrets_path, conc, scen>>

NextValidate ==
  \/ Validate
  \/ ExternalIgnoreEdit
  \/ ExternalGlobalEdit
  \/ Chdir

SpecValidate == InitValidate /\ [][NextValidate]_vars

\* ---------------------------------------------------------------- claims
\* A step at which process p's set or delete writes the secrets file.
WritesFile(p) ==
  \/ pc[p] = "loaded" /\ pc'[p] = "writing"
  \/ pc[p] = "writing" /\ pc'[p] = "idle"

Stored == IF file.kind = "map" THEN file.data ELSE EmptyMap
ValidOrAbsent == file.kind \in {"map", "absent", "noparent"}
CheckFails == validate_ignored_before_write.raised # None
Bool(b) == IF b THEN "True" ELSE "False"

\* Whether a managed-zone entry names the path: its relative path, its bare
\* filename, or (read in the code's favour) the wildcard pattern for a file
\* in the canonical place.
Matches(pat, p) ==
  \/ pat = p.rel
  \/ pat = p.name
  \/ pat = SECRETS_PATTERNS[2] /\ p.rel = DEFAULT_SECRETS_PATH

\* No ignore rule covers the secrets path itself: no managed-zone entry
\* names it and the global rules match neither its relative path nor its
\* bare filename.
NotCovered ==
  /\ \A pat \in zone : ~Matches(pat, secrets_path)
  /\ ~is_globally_ignored(secrets_path.rel)
  /\ ~is_globally_ignored(secrets_path.name)

\* C2, as stated: when no ignore rule covers the resolved secrets path, set
\* and delete raise SecretNotIgnoredError and leave the file unchanged.
C2_UncoveredPathRefused ==
  [][(last'.op \in {"set", "delete"} /\ NotCovered) =>
       (last'.raised = SecretNotIgnoredError /\ file' = file)]_vars

\* C3: a set or delete whose validation fails ends with
\* SecretNotIgnoredError, returns nothing, and leaves the secrets file (and
\* the absence of the file or of its directory) as it was.
C3_NoWriteOnFailure ==
  [][(last'.op \in {"set", "delete"} /\ CheckFails) =>
       (last'.raised = SecretNotIgnoredError /\ last'.result = None /\ file' = file)]_vars

\* A delete of a stored key was refused and the key is still stored.
C3_Witness ==
  /\ last.op = "delete"
  /\ last.raised = SecretNotIgnoredError
  /\ Has(Stored, last.key)

\* C5: a delete whose validation passes, on a file that is absent or holds a
\* mapping M: for a key not in M it returns False and leaves the file as it
\* was (absent if it was absent); for a key in M it returns True and the file
\* then holds M without that key, every other key with its value; a second
\* delete of the key right after a successful one returns False.
C5_DeleteSemantics ==
  [][(last'.op = "delete" /\ ~CheckFails /\ ValidOrAbsent) =>
       /\ last'.raised = None
       /\ IF ~Has(Stored, last'.key)
            THEN last'.result = "False" /\ file' = file
            ELSE /\ last'.result = "True"
                 /\ file'.kind = "map"
                 /\ DOMAIN file'.data = (DOMAIN Stored) \ {last'.key}
                 /\ \A k \in DOMAIN file'.data : file'.data[k] = Stored[k]
       /\ (last.op = "delete" /\ last.result = "True" /\ last.key = last'.key)
            => last'.result = "False"]_vars

\* A delete returned True and another key is still stored.
C5_Witness ==
  /\ last.op = "delete"
  /\ last.result = "True"
  /\ file.kind = "map"
  /\ DOMAIN file.data # {}
  /\ ~Has(file.data, last.key)

\* C6: a set whose validation passes, on a file that is absent or holds a
\* mapping M, leaves the file holding M with the key mapped to the value:
\* the other keys of M keep their values and no other key appears; a get of
\* the key right after returns the value and a has returns True.
C6_SetSemantics ==
  [][/\ (last'.op = "set" /\ ~CheckFails /\ ValidOrAbsent) =>
          /\ last'.raised = None
          /\ file'.kind = "map"
          /\ DOMAIN file'.data = (DOMAIN Stored) \cup {last'.key}
          /\ file'.data[last'.key] = last'.val
          /\ \A k \in (DOMAIN Stored) \ {last'.key} : file'.data[k] = Stored[k]
     /\ (last.op = "set" /\ last.raised = None /\ last'.op = "get"
           /\ last'.key = last.key) => last'.result = last.val
     /\ (last.op = "set" /\ last.raised = None /\ last'.op = "has"
           /\ last'.key = last.key) => last'.result = "True"]_vars

\* A set has overwritten or added its key beside another stored key.
C6_Witness ==
  /\ last.op = "set"
  /\ last.raised = None
  /\ file.kind = "map"
  /\ Has(file.data, last.key)
  /\ file.data[last.key] = last.val
  /\ DOMAIN file.data # {last.key}

\* What a read call returns when the file holds mapping m.
AnswersFrom(m, c) ==
  /\ c.op = "get" => c.result = (IF Has(m, c.key) THEN m[c.key] ELSE c.val)
  /\ c.op = "has" => c.result = Bool(Has(m, c.key))
  /\ c.op = "list" => c.listed = DOMAIN m
  /\ c.op = "get_multiple" =>
       c.multi = [k \in Range(c.val) |-> IF Has(m, k) THEN m[k] ELSE None]

\* C7: with no secrets file, get returns its default, has returns False,
\* list returns no key and get_multiple maps every requested key to None;
\* none raises and none creates the file.
C7_MissingFile ==
  [][(~exists(file) /\ last'.op \in ReadOps) =>
       /\ last'.raised = None
       /\ file' = file
       /\ AnswersFrom(EmptyMap, last')]_vars

\* A get with a default other than None ran with no file and returned it.
C7_Witness ==
  /\ last.op = "get"
  /\ last.val = "dflt"
  /\ last.result = "dflt"
  /\ ~exists(file)

C9_NoCache ==
  [][(last'.op \in ReadOps /\ file.kind # "undecodable") =>
       /\ last'.raised = None
       /\ AnswersFrom(Stored, last')]_vars

\* A get returned a stored value from a file that an outside writer changed
\* after the previous call had loaded a different mapping.
C9_Witness ==
  /\ last.op = "get"
  /\ last.stale
  /\ last.result \in Vals
  /\ last.result = Stored[last.key]

\* C10, as stated: is_protected returns a boolean, equal to is_ignored of
\* the secrets path relative to the project root, and never raises, wherever
\* the secrets path lies.
C10_IsProtectedTotal ==
  [][last'.op = "is_protected" =>
       /\ last'.raised = None
       /\ last'.result \in {"True", "False"}
       /\ secrets_path.base = find_project_root =>
            last'.result = Bool(is_ignored(secrets_path.rel))]_vars

\* C4: however many calls were refused before, the first set made once the
\* ignore state passes the check succeeds; the get after it returns the
\* value, list returns the key, delete returns True and the get after that
\* returns None.
C4_RecoveryAfterRefusal ==
  /\ phase = "set" => (last.op = "set" /\ last.raised = None)
  /\ phase = "got" => (last.raised = None /\ last.result = goal.val)
  /\ phase = "listed" => (last.raised = None /\ goal.key \in last.listed)
  /\ phase = "deleted" => (last.raised = None /\ last.result = "True")
  /\ phase = "done" => (last.raised = None /\ last.result = None)

\* The whole sequence ran after two refused calls.
C4_Witness ==
  /\ phase = "done"
  /\ refusals = 2
  /\ last.op = "get"
  /\ last.result = None

\* C11: a construction with auto_ensure_ignored leaves both fixed patterns
\* in the managed zone and changes nothing else in it; a construction that
\* follows one with auto_ensure_ignored leaves the zone exactly as it was;
\* a construction without auto_ensure_ignored leaves the zone unchanged.
FixedPatterns == {SECRETS_PATTERNS[i] : i \in 1..Len(SECRETS_PATTERNS)}
C11_ConstructionRegisters ==
  [][last'.op = "construct" =>
       /\ last'.val = "True" =>
            (FixedPatterns \subseteq zone' /\ zone' = zone \cup FixedPatterns)
       /\ last'.val = "False" => zone' = zone
       /\ (last.op = "construct" /\ last.val = "True") => zone' = zone]_vars

\* A store was constructed with auto_ensure_ignored; the zone holds both
\* patterns beside an entry that was there before.
C11_Witness ==
  /\ last.op = "construct"
  /\ last.val = "True"
  /\ FixedPatterns \subseteq zone
  /\ zone # FixedPatterns

\* C12: construction, get, has, list, get_multiple and is_protected leave
\* the secrets file as it is (absent if absent); get, has, list,
\* get_multiple and is_protected leave the ignore state as it is; of the
\* store's calls only a set or delete whose validation passed changes the
\* file.
C12_ReadOnlyCalls ==
  [][/\ last'.op \in ReadOps \cup {"construct", "is_protected"} => file' = file
     /\ last'.op \in ReadOps \cup {"is_protected"} => (zone' = zone /\ glob' = glob)
     /\ (file' # file /\ last'.op # "external") =>
          (last'.op \in {"set", "delete"} /\ ~CheckFails)]_vars

\* A list ran with no secrets file and none exists afterwards.
C12_Witness ==
  /\ last.op = "list"
  /\ last.raised = None
  /\ file = NoParent

\* C13: get_multiple(keys) returns one entry for each requested key and no
\* other: the stored value, or None for a key that is not stored; a
\* get(k) right after returns what the entry for k held; the file is loaded
\* once (an unparseable file is reported once).
C13_GetMultiple ==
  [][/\ (last'.op = "get_multiple" /\ file.kind # "undecodable") =>
          /\ last'.raised = None
          /\ DOMAIN last'.multi = Range(last'.val)
          /\ \A k \in Range(last'.val) :
               last'.multi[k] = (IF Has(Stored, k) THEN Stored[k] ELSE None)
          /\ Len(last'.log) = (IF file = Malformed THEN 1 ELSE 0)
     /\ (last.op = "get_multiple" /\ last.raised = None /\ last'.op = "get"
           /\ last'.val = None /\ last'.key \in Range(last.val)) =>
          last'.result = last.multi[last'.key]]_vars

\* A get_multiple asked for a stored key and for one that is not stored.
C13_Witness ==
  /\ last.op = "get_multiple"
  /\ \E k1, k2 \in DOMAIN last.multi :
       last.multi[k1] \in Vals /\ last.multi[k2] = None

\* The value types the store is specified for: strings, numbers, booleans
\* (and None); not the Python-only types yaml.dump writes with a tag.
Supported(m) == \A k \in DOMAIN m : m[k] # PyTuple

\* C14: after _save_secrets(M) of a mapping M of supported values (the
\* empty one included), _load_secrets returns a mapping equal to M without
\* error or log entry, and a get of a key on a fresh instance returns the
\* value M holds for it.
C14_RoundTrip ==
  /\ (last.op = "load" /\ Supported(goal)) =>
       (last.raised = None /\ last.secrets = goal /\ last.log = <<>>)
  /\ (last.op = "get" /\ Supported(goal)) =>
       (last.raised = None /\ last.result = DictGet(goal, last.key, None))

\* A mapping whose key and value are strings that read as an integer and
\* as empty, beside a true integer, was saved and loaded back.
C14_Witness ==
  /\ last.op = "load"
  /\ DOMAIN goal = RtKeys
  /\ goal["123"] = ""
  /\ goal["A"] = PyInt
  /\ last.secrets = goal

\* C15, as stated: the validation passes exactly when is_ignored holds of
\* the exact pattern, the wildcard pattern or the bare filename, or the
\* secrets path lies under the project root and its path from the root is
\* globally ignored, or it does not lie under the root and its bare filename
\* is globally ignored; otherwise it raises SecretNotIgnoredError. For a
\* path under the root the bare filename is never what the global test
\* accepted, and a later check is reached only when every earlier one failed.
C15_DecisionFunction ==
  last.op = "validate" =>
    /\ (last.raised = None) <=> Accepts
    /\ last.raised \in {None, SecretNotIgnoredError}
    /\ LiesUnderRoot => last.result # "global_name"
    /\ last.result = "pattern" <=>
         (is_ignored(SECRETS_PATTERNS[1]) \/ is_ignored(SECRETS_PATTERNS[2]))
    /\ last.result = "name" =>
         (is_ignored(secrets_path.name) /\ ~is_ignored(SECRETS_PATTERNS[1])
            /\ ~is_ignored(SECRETS_PATTERNS[2]))
    /\ last.result \in {"global_rel", "global_name"} =>
         ~(\/ is_ignored(SECRETS_PATTERNS[1])
           \/ is_ignored(SECRETS_PATTERNS[2])
           \/ is_ignored(secrets_path.name))

\* C16: when two processes set different keys on the same file and their
\* steps interleave, each save replaces the file with the mapping its own
\* process holds, so that once both calls have ended the file is what the
\* later save wrote; no call ends with an error.
C16_LastWriteWins ==
  [][/\ \A p \in Procs :
          (pc[p] = "writing" /\ pc'[p] = "idle") =>
            (file' = yaml_dump(loc[p].secrets) /\ loc'[p].ended = "ok")
     /\ \A p \in Procs : loc'[p].ended \in {None, "ok"}
     /\ (\A p \in Procs : loc'[p].ended = "ok") =>
          \E q \in Procs : file' = yaml_dump(loc'[q].secrets)]_vars

\* Both sets have ended without error and the file lacks the key one of
\* them set.
C16_Witness ==
  /\ \A p \in Procs : loc[p].op = "set" /\ loc[p].ended = "ok"
  /\ file.kind = "map"
  /\ \E q \in Procs : ~Has(file.data, ProcKey(q))

\* C17, as stated: a reader that runs while a set is saving loads a whole
\* mapping: the one the file held at the start or one that a set has saved or
\* is saving, never anything else.
C17_ReadersSeeWholeMapping ==
  (last.op \in ReadOps /\ last.raised = None) =>
    last.secrets \in {goal} \cup
      {loc[p].secrets : p \in {q \in Procs : pc[q] = "writing" \/ loc[q].ended = "ok"}}

\* C18, as stated: every log entry a set or delete emits names at most the
\* key of the call and quotes no stored value, and the entries are fixed by
\* the file, the ignore state, the operation and the key: the value passed
\* to set plays no part.
C18_ValuesNeverLogged ==
  [][last'.op \in {"set", "delete"} =>
       /\ \A i \in DOMAIN last'.log :
            /\ last'.log[i].key \in {None, last'.key}
            /\ last'.log[i].quoted = {}
       /\ last'.log =
            IF CheckFails THEN <<>>
            ELSE IF load_secrets.raised # None THEN load_secrets.log
            ELSE load_secrets.log \o
                   <<IF last'.op = "set" THEN Entry("info", "saved", last'.key)
                     ELSE IF Has(load_secrets.data, last'.key)
                       THEN Entry("info", "deleted", last'.key)
                       ELSE Entry("debug", "not found", last'.key)>>]_vars

====
